---- MODULE Spec2Model ----
(***************************************************************************)
(* pyfetch (src/pyfetch.py): a Neofetch-style system information tool.     *)
(*                                                                         *)
(* The program has no persistent state of its own; what it reads is the    *)
(* environment of the process (platform, environment variables, files,     *)
(* commands on PATH, the optional psutil library).  The model therefore    *)
(* has one variable, env, for that environment, one for the module-level   *)
(* LOGOS table (a dict of Python lists, hence mutable), and variables for  *)
(* the calls made: main() (the report) and single calls of the module's    *)
(* functions.                                                              *)
(*                                                                         *)
(* Text is modelled by TLA+ strings (TLC evaluates Len, \o and SubSeq on   *)
(* them).  Some characters cannot be written in a TLA+ string: the escape   *)
(* character \033 is written "^[", the em dash is written "<emdash>", the  *)
(* box-drawing dash of the underline is written "-", and the Braille cells *)
(* of the Windows logo are written "#" (the blank cell "."), and the      *)
(* grave accent of the Linux logo is written "'".                           *)
(* Optional[str] is a sequence of length at most one: None is << >> and    *)
(* the string s is <<s>>.                                                  *)
(*                                                                         *)
(* Lines 340-343 of the source carry a stray U+2800 after the comma that   *)
(* ends the list item; the model reads the table as the eleven-line list   *)
(* it is meant to be.                                                      *)
(***************************************************************************)
EXTENDS Integers, Sequences, FiniteSets, TLC

VARIABLES env, LOGOS, call, mainRuns, results, rows, info_lines, logo, proc, stdout

vars == <<env, LOGOS, call, mainRuns, results, rows, info_lines, logo, proc, stdout>>

\* the locals of main()
locals == <<results, rows, info_lines, logo, proc>>

-----------------------------------------------------------------------------
(* Bounds of the model.                                                    *)

\* human_bytes is applied to n = m * 1024^e, m in 0..MaxMant or a special
\* mantissa, e in 0..MaxExp.
MaxMant == 40
MaxExp == 7
\* parse_uptime is applied to durations of at most MaxDays days (and some
\* hours, minutes and seconds), with and without a fractional part.
MaxDays == 2
\* pick_logo is applied to the concatenations of at most MaxTokens tokens.
MaxTokens == 2
\* main() is called at most MaxRuns times in one process.
MaxRuns == 2

-----------------------------------------------------------------------------
(* Python's str and list operations, as far as the program uses them.      *)

None == << >>
Some(s) == <<s>>

Max(a, b) == IF a >= b THEN a ELSE b

Char(s, i) == SubSeq(s, i, i)

DIGITS == "0123456789"
WHITESPACE == {" ", "\t", "\n", "\r"}

\* str.lower() of one character: the cased ASCII letters
LOWERCASE ==
  "A" :> "a" @@ "B" :> "b" @@ "C" :> "c" @@ "D" :> "d" @@ "E" :> "e" @@ "F" :>
  "f" @@ "G" :> "g" @@ "H" :> "h" @@ "I" :> "i" @@ "J" :> "j" @@ "K" :> "k" @@
  "L" :> "l" @@ "M" :> "m" @@ "N" :> "n" @@ "O" :> "o" @@ "P" :> "p" @@ "Q" :>
  "q" @@ "R" :> "r" @@ "S" :> "s" @@ "T" :> "t" @@ "U" :> "u" @@ "V" :> "v" @@
  "W" :> "w" @@ "X" :> "x" @@ "Y" :> "y" @@ "Z" :> "z"

LowerChar(c) == IF c \in DOMAIN LOWERCASE THEN LOWERCASE[c] ELSE c

\* s.lower(), character by character (the string is halved to keep the
\* evaluation shallow)
RECURSIVE lower(_)
lower(s) ==
  LET left == SubSeq(s, 1, Len(s) \div 2)
      right == SubSeq(s, (Len(s) \div 2) + 1, Len(s))
  IN IF Len(s) = 0 THEN ""
     ELSE IF Len(s) = 1 THEN LowerChar(s)
     ELSE lower(left) \o lower(right)

\* sub in s
Contains(sub, s) ==
  \E i \in 1..(Len(s) - Len(sub) + 1) : SubSeq(s, i, i + Len(sub) - 1) = sub

\* the least element of a non-empty set of numbers
Min(S) == CHOOSE x \in S : \A y \in S : x <= y

\* s.find(sub) + 1, 0 when sub does not occur in s
Find(sub, s) ==
  LET at == {i \in 1..(Len(s) - Len(sub) + 1) : SubSeq(s, i, i + Len(sub) - 1) = sub}
  IN IF at = {} THEN 0 ELSE Min(at)

\* the first word of a command line: the executable
Executable(cmd) == SubSeq(cmd, 1, Find(" ", cmd \o " ") - 1)

\* s.split(sep, 1)
Split1(s, sep) ==
  LET i == Find(sep, s)
  IN IF i = 0 THEN <<s>>
     ELSE <<SubSeq(s, 1, i - 1), SubSeq(s, i + Len(sep), Len(s))>>

\* s.split(sep)
RECURSIVE Split(_, _)
Split(s, sep) ==
  LET i == Find(sep, s)
      rest == SubSeq(s, i + Len(sep), Len(s))
  IN IF i = 0 THEN <<s>>
     ELSE <<SubSeq(s, 1, i - 1)>> \o Split(rest, sep)

\* s.lstrip(), s.rstrip(), s.strip()
RECURSIVE lstrip(_)
lstrip(s) ==
  LET rest == SubSeq(s, 2, Len(s))
  IN IF s # "" /\ Char(s, 1) \in WHITESPACE THEN lstrip(rest) ELSE s

RECURSIVE rstrip(_)
rstrip(s) ==
  LET rest == SubSeq(s, 1, Len(s) - 1)
  IN IF s # "" /\ Char(s, Len(s)) \in WHITESPACE THEN rstrip(rest) ELSE s

strip(s) == lstrip(rstrip(s))

\* s.strip('"')
RECURSIVE StripQuotes(_)
StripQuotes(s) ==
  LET tail == SubSeq(s, 2, Len(s))
      init == SubSeq(s, 1, Len(s) - 1)
  IN IF s # "" /\ Char(s, 1) = "\"" THEN StripQuotes(tail)
     ELSE IF s # "" /\ Char(s, Len(s)) = "\"" THEN StripQuotes(init)
     ELSE s

\* s.splitlines()
splitlines(s) ==
  IF s = "" THEN << >>
  ELSE LET parts == Split(s, "\n")
       IN IF parts[Len(parts)] = "" THEN SubSeq(parts, 1, Len(parts) - 1) ELSE parts

\* the position of the first whitespace character of s from i on, Len(s) + 1
\* when there is none
WordEnd(s, i) ==
  Min({j \in i..Len(s) : Char(s, j) \in WHITESPACE} \cup {Len(s) + 1})

\* s.split(): the words of s between runs of whitespace
RECURSIVE Words(_)
Words(s) ==
  LET t == lstrip(s)
      n == WordEnd(t, 1)
      rest == SubSeq(t, n, Len(t))
  IN IF t = "" THEN << >>
     ELSE <<SubSeq(t, 1, n - 1)>> \o Words(rest)

\* sep.join(parts)
RECURSIVE Join(_, _)
Join(parts, sep) ==
  LET rest == Tail(parts)
  IN IF parts = << >> THEN ""
     ELSE IF Len(parts) = 1 THEN parts[1]
     ELSE parts[1] \o sep \o Join(rest, sep)

\* s.isdigit()
isdigit(s) == s # "" /\ \A i \in 1..Len(s) : Contains(Char(s, i), DIGITS)

\* the value of a string of decimal digits
RECURSIVE DigitsValue(_)
DigitsValue(s) ==
  LET init == SubSeq(s, 1, Len(s) - 1)
  IN IF s = "" THEN 0
     ELSE 10 * DigitsValue(init) + (Find(Char(s, Len(s)), DIGITS) - 1)

\* s * n (the count is halved to keep the evaluation shallow)
RECURSIVE Repeat(_, _)
Repeat(s, n) ==
  LET half == n \div 2
      other == n - half
  IN IF n <= 0 THEN ""
     ELSE IF n = 1 THEN s
     ELSE Repeat(s, half) \o Repeat(s, other)

\* " " * n
Spaces(n) == Repeat(" ", n)

\* f"{s:<w}"
PadRight(s, w) == s \o Spaces(w - Len(s))

-----------------------------------------------------------------------------
(* Numbers.  A byte count is the exact value m * 1024^e (e may be          *)
(* negative): every float the program computes from the inputs of the      *)
(* model is such a value with m < 2^53, so the float arithmetic of         *)
(* lines 45-47 and 186-187 is exact on it.  A duration is whole seconds    *)
(* plus tenths.                                                            *)

Num(m, e) == [m |-> m, e |-> e]

RECURSIVE Pow1024(_)
Pow1024(k) == IF k = 0 THEN 1 ELSE 1024 * Pow1024(k - 1)

\* n < 1024.0  (m < 2^31, so the comparison is decided for e <= -3)
LessThan1024(n) ==
  IF n.e >= 1 THEN n.m = 0
  ELSE IF n.e >= -2 THEN n.m < Pow1024(1 - n.e)
  ELSE TRUE

\* n / 1024.0 and n * 1024
DivideBy1024(n) == IF n.m = 0 THEN n ELSE Num(n.m, n.e - 1)
TimesBy1024(n) == IF n.m = 0 THEN n ELSE Num(n.m, n.e + 1)

\* round(a / b) with ties to the even neighbour, as format() rounds the
\* exact binary value
RoundHalfEven(a, b) ==
  LET q == a \div b
      r == a % b
  IN IF 2 * r > b \/ (2 * r = b /\ q % 2 = 1) THEN q + 1 ELSE q

\* f"{n:.1f}"
FormatOneDecimal(n) ==
  IF n.e >= 0
  THEN ToString(n.m * Pow1024(n.e)) \o ".0"
  ELSE LET tenths == RoundHalfEven(10 * n.m, Pow1024(0 - n.e))
       IN ToString(tenths \div 10) \o "." \o ToString(tenths % 10)

Seconds(whole, tenths) == [int |-> whole, tenths |-> tenths]

-----------------------------------------------------------------------------
(* human_bytes and parse_uptime.                                           *)

UNITS == <<"B", "KB", "MB", "GB", "TB", "PB">>

RECURSIVE human_bytes_from(_, _)
human_bytes_from(n, i) ==
  LET divided == DivideBy1024(n)
      next == i + 1
  IN IF i > Len(UNITS) THEN FormatOneDecimal(n) \o " EB"
     ELSE IF LessThan1024(n) THEN FormatOneDecimal(n) \o " " \o UNITS[i]
     ELSE human_bytes_from(divided, next)

human_bytes(n) == human_bytes_from(n, 1)

\* a variant of parse_uptime that appends the minutes part unconditionally
parse_uptime_minutes_always(seconds) ==
  LET s == seconds.int
      days == s \div 86400
      hours == (s % 86400) \div 3600
      minutes == (s % 3600) \div 60
      parts1 == IF days # 0 THEN <<ToString(days) \o "d">> ELSE << >>
      parts2 == IF hours # 0 THEN Append(parts1, ToString(hours) \o "h") ELSE parts1
  IN Join(Append(parts2, ToString(minutes) \o "m"), " ")

parse_uptime(seconds) ==
  LET s == seconds.int
      days == s \div 86400
      rem1 == s % 86400
      hours == rem1 \div 3600
      rem2 == rem1 % 3600
      minutes == rem2 \div 60
      parts1 == IF days # 0 THEN <<ToString(days) \o "d">> ELSE << >>
      parts2 == IF hours # 0 THEN Append(parts1, ToString(hours) \o "h") ELSE parts1
      parts3 == IF minutes # 0 \/ parts2 = << >>
                THEN Append(parts2, ToString(minutes) \o "m") ELSE parts2
  IN Join(parts3, " ")

-----------------------------------------------------------------------------
(* The environment of the process.                                         *)
(*   system    platform.system()                                            *)
(*   psutil    the optional library: "absent" (import fails), "ok",         *)
(*             "nobattery" (sensors_battery() returns None), "old" (the     *)
(*             module has no sensors_battery), "broken" (importable, but    *)
(*             its calls raise)                                             *)
(*   environ   os.environ, on the variables the program reads               *)
(*   getent    "missing" (not on PATH), "fails" (on PATH, the lookup exits  *)
(*             non-zero), "ok"                                              *)
(*   pmset     whether pmset -g batt prints a report                        *)
(*   tools     whether the platform's other utilities are on PATH and work  *)
(*   files     the Linux files read: "missing", "garbled" (readable, not    *)
(*             holding the expected keys), "ok"                             *)
(*   desktop   whether a graphical session is present (tkinter works)       *)
(*   io        whether the stdlib queries of the OS work (disk_usage, the   *)
(*             UDP socket, the scan of sys.path)                            *)
(*   locale    the language of the Windows net command's report             *)

Systems == {"Linux", "Darwin", "Windows", "FreeBSD", ""}
PsutilStates == {"absent", "ok", "nobattery", "old", "broken"}
EnvVars == {"USER", "USERNAME", "SHELL", "COMSPEC", "XDG_CURRENT_DESKTOP",
            "DESKTOP_SESSION", "GDMSESSION", "PROCESSOR_IDENTIFIER"}

MakeEnv(sys, ps, user, shellvar, getent, pmset, tools, files, desktop, io, procid, locale) ==
  [system  |-> sys,
   psutil  |-> ps,
   environ |-> [v \in EnvVars |->
                  CASE v = "USER" /\ user /\ sys # "Windows" -> Some("alice")
                    [] v = "USERNAME" /\ user /\ sys = "Windows" -> Some("alice")
                    [] v = "SHELL" /\ shellvar /\ sys # "Windows" -> Some("/bin/zsh")
                    [] v = "COMSPEC" /\ shellvar /\ sys = "Windows"
                         -> Some("C:\\Windows\\system32\\cmd.exe")
                    [] v = "DESKTOP_SESSION" /\ desktop /\ sys \in {"Linux", "FreeBSD"}
                         -> Some("gnome")
                    [] v = "PROCESSOR_IDENTIFIER" /\ procid /\ sys = "Windows"
                         -> Some("Intel64 Family 6 Model 142 Stepping 12, GenuineIntel")
                    [] OTHER -> None],
   getent  |-> getent,
   pmset   |-> pmset,
   tools   |-> tools,
   files   |-> files,
   desktop |-> desktop,
   io      |-> io,
   locale  |-> locale]

\* The environments of the model.  A setting that the program cannot observe
\* on a platform is held at one value there.
Environments ==
  { MakeEnv(sys, ps, user, shellvar, getent, pmset, tools, files, desktop, io, procid, locale) :
      sys \in Systems, ps \in PsutilStates, user \in BOOLEAN, shellvar \in BOOLEAN,
      getent \in {"missing", "fails", "ok"}, pmset \in BOOLEAN, tools \in BOOLEAN,
      files \in {"missing", "garbled", "ok"}, desktop \in BOOLEAN, io \in BOOLEAN,
      procid \in BOOLEAN, locale \in {"en_US", "en_GB"} }

Observable(e) ==
  /\ e.system = "Windows" => e.getent = "missing"
  /\ e.system # "Darwin" => ~e.pmset
  /\ e.system # "Linux" => e.files = "missing"
  /\ e.system # "Windows" => e.locale = "en_US" /\ e.environ["PROCESSOR_IDENTIFIER"] = None

\* an environment in which nothing optional is present: used where a call
\* does not read the environment
BareEnv ==
  MakeEnv("Linux", "absent", FALSE, FALSE, "missing", FALSE, FALSE, "missing",
          FALSE, FALSE, FALSE, "en_US")

Getenv(e, k) == e.environ[k]

\* os.environ.get(k, default)
GetenvOr(e, k, default) == IF e.environ[k] = None THEN default ELSE e.environ[k][1]

\* the truth value of an Optional[str]: None and "" are false
Truthy(v) == v # None /\ v[1] # ""

\* a or b, on Optional[str]
Or(a, b) == IF Truthy(a) THEN a ELSE b

\* platform.release(), platform.version(), platform.mac_ver()[0]
platform_release(e) ==
  CASE e.system = "Linux" -> "6.1.0-18-amd64"
    [] e.system = "Darwin" -> "23.2.0"
    [] e.system = "Windows" -> "10"
    [] e.system = "FreeBSD" -> "14.0-RELEASE"
    [] OTHER -> ""
platform_version(e) == "10.0.19045"
platform_mac_ver(e) == "14.2.1"

\* platform.processor(): on POSIX the output of uname -p, "" when it fails
platform_processor(e) ==
  IF e.system = "Windows" THEN "Intel64 Family 6"
  ELSE IF e.tools THEN "x86_64" ELSE ""

\* socket.gethostname()
gethostname(e) == "box"

\* time.time() and datetime.now(): the moment of the run
Now == Seconds(1700090000, 5)
NowDate == [month |-> 11, day |-> 4, year |-> 2026, secs |-> 9 * 3600]

\* the executables on PATH
Installed(e) ==
  (IF e.getent # "missing" THEN {"getent"} ELSE {})
  \cup (IF e.pmset THEN {"pmset"} ELSE {})
  \cup (IF ~e.tools THEN {}
        ELSE CASE e.system = "Linux" -> {"bash", "xrandr", "lspci", "dpkg-query"}
               [] e.system = "Darwin" -> {"bash", "sw_vers", "sysctl", "system_profiler", "brew"}
               [] e.system = "Windows" -> {"wmic", "net"}
               [] e.system = "FreeBSD" -> {"bash", "xrandr", "lspci", "sysctl", "rpm"}
               [] OTHER -> {"bash"})

\* the two shell pipelines of get_res and get_gpu
XRANDR == "xrandr | grep -w connected | awk '{print $3}' | sed 's/+.*//g' | sed 's/primary //g'"
LSPCI == "lspci | grep -i -E 'vga|3d|display'"

\* what a command prints when it exits 0
CommandOutput(e, cmd) ==
  CASE cmd = "sw_vers -productVersion" -> "14.2\n"
    [] cmd = "getent passwd alice" ->
         IF e.getent = "ok" THEN "alice:x:1000:1000:Alice:/home/alice:/bin/bash\n" ELSE ""
    [] cmd = XRANDR -> "1920x1080\n2560x1440\n"
    [] cmd = "wmic cpu get Name /value" -> "\r\n\r\nName=Intel(R) Core(TM) i7-8565U CPU\r\n\r\n"
    [] cmd = "sysctl -n machdep.cpu.brand_string" -> "Apple M1\n"
    [] cmd = "wmic path win32_VideoController get name" -> "Name\nNVIDIA GeForce MX250\n\n"
    [] cmd = "system_profiler SPDisplaysDataType" ->
         "Graphics/Displays:\n    Apple M1:\n      Chipset Model: Apple M1\n      Vendor: Apple (0x106b)\n"
    [] cmd = LSPCI -> "00:02.0 VGA compatible controller: Intel UHD Graphics 620\n"
    [] cmd = "sysctl -n kern.boottime" -> "{ sec = 1700000000, usec = 0 } Tue Nov 14 22:13:20 2023\n"
    [] cmd = "net stats srv" ->
         IF e.locale = "en_US"
         THEN "Server Statistics for \\\\BOX\n\nStatistics since 11/3/2026 8:00:00 AM\n"
         ELSE "Server Statistics for \\\\BOX\n\nStatistics since 03/11/2026 08:00:00\n"
    [] cmd = "bash -lc dpkg-query -f '${binary:Package}\n' -W | wc -l" -> "1843\n"
    [] cmd = "bash -lc pacman -Qq | wc -l" -> "0\n"
    [] cmd = "bash -lc rpm -qa | wc -l" -> "412\n"
    [] cmd = "bash -lc apk info | wc -l" -> "0\n"
    [] cmd = "bash -lc brew list --formula | wc -l" -> "97\n"
    [] cmd = "pmset -g batt" ->
         "Now drawing from 'Battery Power'\n -InternalBattery-0 (id=1234567)\t85%; discharging; 4:12 remaining\n"
    [] OTHER -> ""

\* run(cmd): stdout, stripped, and "" when the command is missing or fails
run(e, cmd) ==
  IF Executable(cmd) \in Installed(e) THEN strip(CommandOutput(e, cmd)) ELSE ""

\* which(name) is not None
which(e, name) == name \in Installed(e)

\* the lines of a file, None when open() raises
FileLines(e, path) ==
  IF e.files = "missing" THEN None
  ELSE IF e.files = "ok"
  THEN Some(CASE path = "/etc/os-release" ->
                   <<"PRETTY_NAME=\"Debian GNU/Linux 12 (bookworm)\"", "NAME=\"Debian GNU/Linux\"",
                     "VERSION_ID=\"12\"", "">>
              [] path = "/proc/cpuinfo" ->
                   <<"processor\t: 0", "vendor_id\t: GenuineIntel",
                     "model name\t: Intel(R) Core(TM) i7-8565U CPU @ 1.80GHz">>
              [] path = "/proc/meminfo" ->
                   <<"MemTotal:        2048000 kB", "MemFree:          512000 kB",
                     "MemAvailable:    1024000 kB">>
              [] OTHER -> <<"90000.53 181234.10">>)
  ELSE Some(CASE path = "/etc/os-release" -> <<"# no pretty name", "NAME=\"Arch Linux\"">>
              [] path = "/proc/cpuinfo" -> <<"processor\t: 0", "BogoMIPS\t: 50.00">>
              [] path = "/proc/meminfo" -> <<"MemFree:          512000 kB">>
              [] OTHER -> <<"">>)

-----------------------------------------------------------------------------
(* The field resolvers.  A call returns [val, raised, ran]: the value      *)
(* returned (for an Optional[str], None or Some(s)), whether an exception  *)
(* escaped the call instead, and the commands handed to run(), in order.   *)

Returns(v, ran) == [val |-> v, raised |-> FALSE, ran |-> ran]
Raises(ran) == [val |-> None, raised |-> TRUE, ran |-> ran]

\* the (key, value) pairs of the lines that hold sep: line.split(sep, 1)
KeyValues(lines, sep) ==
  LET withSep == SelectSeq(lines, LAMBDA l : Contains(sep, l))
  IN [i \in 1..Len(withSep) |-> Split1(withSep[i], sep)]

\* dict.get(key) on the pairs, the last assignment winning
Lookup(pairs, key) ==
  LET hits == SelectSeq(pairs, LAMBDA kv : kv[1] = key)
  IN IF hits = << >> THEN None ELSE Some(hits[Len(hits)][2])

get_os(e) ==
  IF e.system = "Linux"
  THEN LET f == FileLines(e, "/etc/os-release")
           stripped == [i \in 1..Len(f[1]) |-> strip(f[1][i])]
           kv == KeyValues(stripped, "=")
           data == [i \in 1..Len(kv) |-> <<kv[i][1], StripQuotes(kv[i][2])>>]
           pretty == IF f = None THEN ""
                     ELSE Or(Or(Lookup(data, "PRETTY_NAME"), Lookup(data, "NAME")), Some(""))[1]
       IN Returns(<<IF pretty # "" THEN pretty ELSE "Linux", platform_release(e)>>, << >>)
  ELSE IF e.system = "Darwin"
  THEN LET out == run(e, "sw_vers -productVersion")
       IN Returns(<<"macOS", IF out # "" THEN out ELSE platform_mac_ver(e)>>,
                  <<"sw_vers -productVersion">>)
  ELSE IF e.system = "Windows"
  THEN Returns(<<"Windows " \o platform_release(e), platform_version(e)>>, << >>)
  ELSE Returns(<<IF e.system # "" THEN e.system ELSE "Unknown", platform_release(e)>>, << >>)

get_kernel(e) == Returns(Some(platform_release(e)), << >>)

get_host(e) ==
  LET user == Or(Or(Getenv(e, "USER"), Getenv(e, "USERNAME")), Some("user"))[1]
  IN Returns(Some(user \o "@" \o gethostname(e)), << >>)

\* os.environ.get("SHELL", default): Python evaluates the default argument
\* before the call, so run() is called whenever getent is on PATH.
get_shell(e) ==
  IF e.system = "Windows"
  THEN Returns(Some(GetenvOr(e, "COMSPEC", "cmd.exe")), << >>)
  ELSE LET cmd == "getent passwd " \o GetenvOr(e, "USER", "")
           fields == Split(run(e, cmd), ":")
           default == IF which(e, "getent") THEN fields[Len(fields)] ELSE "sh"
       IN Returns(Some(GetenvOr(e, "SHELL", default)),
                  IF which(e, "getent") THEN <<cmd>> ELSE << >>)

get_res(e) ==
  IF e.desktop THEN Returns(Some("1920x1080"), << >>)
  ELSE IF which(e, "xrandr")
  THEN LET out == run(e, XRANDR)
           vals == SelectSeq(splitlines(out), LAMBDA v : Contains("x", v))
       IN Returns(IF out # "" /\ vals # << >> THEN Some(Join(vals, ", ")) ELSE None, <<XRANDR>>)
  ELSE Returns(None, << >>)

get_de_wm(e) ==
  LET keys == <<"XDG_CURRENT_DESKTOP", "DESKTOP_SESSION", "GDMSESSION">>
      found == SelectSeq(keys, LAMBDA k : Truthy(Getenv(e, k)))
  IN IF found # << >> THEN Returns(Getenv(e, found[1]), << >>)
     ELSE IF e.system = "Darwin" THEN Returns(Some("Aqua"), << >>)
     ELSE IF e.system = "Windows" THEN Returns(Some("Explorer"), << >>)
     ELSE Returns(None, << >>)

\* name or platform.processor() or None
NameOrProcessor(e, name) ==
  IF name # "" THEN Some(name)
  ELSE IF platform_processor(e) # "" THEN Some(platform_processor(e))
  ELSE None

get_cpu(e) ==
  IF e.system = "Windows"
  THEN LET id == Getenv(e, "PROCESSOR_IDENTIFIER")
           parts == Split1(run(e, "wmic cpu get Name /value"), "=")
       IN IF Truthy(id) THEN Returns(id, << >>)
          ELSE Returns(NameOrProcessor(e, strip(parts[Len(parts)])), <<"wmic cpu get Name /value">>)
  ELSE IF e.system = "Darwin"
  THEN Returns(NameOrProcessor(e, run(e, "sysctl -n machdep.cpu.brand_string")),
               <<"sysctl -n machdep.cpu.brand_string">>)
  ELSE LET f == FileLines(e, "/proc/cpuinfo")
           hits == IF f = None THEN << >>
                   ELSE SelectSeq(f[1], LAMBDA l : Contains("model name", l))
       IN IF hits # << >> /\ Len(Split1(hits[1], ":")) = 2
          THEN Returns(Some(strip(Split1(hits[1], ":")[2])), << >>)
          ELSE Returns(NameOrProcessor(e, ""), << >>)

get_gpu(e) ==
  IF e.system = "Windows"
  THEN LET val == splitlines(run(e, "wmic path win32_VideoController get name"))
           kept == SelectSeq(val, LAMBDA v : strip(v) # "" /\ ~Contains("Name", v))
           names == [i \in 1..Len(kept) |-> strip(kept[i])]
       IN Returns(IF names # << >> THEN Some(Join(names, ", ")) ELSE None,
                  <<"wmic path win32_VideoController get name">>)
  ELSE IF e.system = "Darwin"
  THEN LET out == run(e, "system_profiler SPDisplaysDataType")
           kept == SelectSeq(splitlines(out),
                             LAMBDA l : Contains("Chipset Model", l) \/ Contains("Vendor", l))
           lines == [i \in 1..Len(kept) |-> strip(kept[i])]
       IN Returns(IF lines # << >> THEN Some(Join(lines, "; ")) ELSE None,
                  <<"system_profiler SPDisplaysDataType">>)
  ELSE IF which(e, "lspci")
  THEN LET out == run(e, LSPCI)
       IN Returns(IF out # "" THEN Some(out) ELSE None, <<LSPCI>>)
  ELSE Returns(None, << >>)

\* float(s) of a decimal numeral: None when float() raises ValueError
ParseFloat(s) ==
  LET parts == Split1(s, ".")
  IN IF isdigit(parts[1]) /\ (Len(parts) = 1 \/ isdigit(parts[2]))
     THEN Some(Seconds(DigitsValue(parts[1]),
                       IF Len(parts) = 1 THEN 0 ELSE DigitsValue(Char(parts[2], 1))))
     ELSE None

\* psutil.virtual_memory(): used and total, in bytes
virtual_memory == [used |-> Num(1536000, 1), total |-> Num(4096000, 1)]

get_memory(e) ==
  IF e.psutil # "absent"
  THEN IF e.psutil = "broken" THEN Raises(<< >>)
       ELSE Returns(Some(human_bytes(virtual_memory.used) \o " / "
                         \o human_bytes(virtual_memory.total)), << >>)
  ELSE IF e.system = "Linux"
  THEN LET f == FileLines(e, "/proc/meminfo")
           unpackable == \A i \in 1..Len(f[1]) : Contains(":", f[1][i])
           kv == KeyValues(f[1], ":")
           meminfo == [i \in 1..Len(kv) |-> <<kv[i][1], strip(kv[i][2])>>]
           total_w == Words(Lookup(meminfo, "MemTotal")[1])
           avail_w == Words(Or(Lookup(meminfo, "MemAvailable"), Some("0 kB"))[1])
           total_kb == ParseFloat(total_w[1])
           avail_kb == ParseFloat(avail_w[1])
           used == TimesBy1024(Num(total_kb[1].int - avail_kb[1].int, 0))
           total == TimesBy1024(Num(total_kb[1].int, 0))
       IN IF /\ f # None
             /\ unpackable
             /\ Lookup(meminfo, "MemTotal") # None
             /\ total_w # << >> /\ avail_w # << >>
             /\ total_kb # None /\ avail_kb # None
          THEN Returns(Some(human_bytes(used) \o " / " \o human_bytes(total)), << >>)
          ELSE Returns(None, << >>)
  ELSE Returns(None, << >>)

\* shutil.disk_usage("/"): total and free, in units of 1024^2 bytes
disk_usage == [total |-> 476000, free |-> 176000]

get_disk(e) ==
  IF e.io
  THEN LET used == disk_usage.total - disk_usage.free
       IN Returns(Some(human_bytes(Num(used, 2)) \o " / " \o human_bytes(Num(disk_usage.total, 2))
                       \o " (" \o ToString((used * 100) \div disk_usage.total) \o "%)"), << >>)
  ELSE Returns(None, << >>)

\* psutil.boot_time()
boot_time == 1700086338

\* a - b for the float seconds a and the whole number b
SecondsSince(a, b) == Seconds(a.int - b, a.tenths)

\* datetime.strptime(s, "%m/%d/%Y %I:%M:%S %p"): None when it raises
strptime(s) ==
  LET w == Words(s)
      date == Split(w[1], "/")
      clock == Split(w[2], ":")
      numeric == /\ \A i \in 1..3 : isdigit(date[i])
                 /\ \A i \in 1..3 : isdigit(clock[i])
      hour == DigitsValue(clock[1])
  IN IF /\ Len(w) = 3 /\ Len(date) = 3 /\ Len(clock) = 3 /\ numeric
        /\ w[3] \in {"AM", "PM"}
        /\ DigitsValue(date[1]) \in 1..12 /\ DigitsValue(date[2]) \in 1..31
        /\ hour \in 1..12 /\ DigitsValue(clock[2]) < 60 /\ DigitsValue(clock[3]) < 60
     THEN Some([month |-> DigitsValue(date[1]), day |-> DigitsValue(date[2]),
                year |-> DigitsValue(date[3]),
                secs |-> ((hour % 12) + (IF w[3] = "PM" THEN 12 ELSE 0)) * 3600
                         + DigitsValue(clock[2]) * 60 + DigitsValue(clock[3])])
     ELSE None

\* (now - boot).total_seconds(), for two moments of one month
total_seconds(now, boot) == Seconds((now.day - boot.day) * 86400 + now.secs - boot.secs, 0)

get_uptime(e) ==
  IF e.psutil # "absent"
  THEN IF e.psutil = "broken" THEN Raises(<< >>)
       ELSE Returns(Some(parse_uptime(SecondsSince(Now, boot_time))), << >>)
  ELSE IF e.system = "Linux"
  THEN LET f == FileLines(e, "/proc/uptime")
           w == Words(Join(f[1], "\n"))
           up == ParseFloat(w[1])
       IN IF f # None /\ w # << >> /\ up # None
          THEN Returns(Some(parse_uptime(up[1])), << >>)
          ELSE Returns(None, << >>)
  ELSE IF e.system = "Darwin"
  THEN LET out == run(e, "sysctl -n kern.boottime")
           after == Split(out, "sec =")
           sec == strip(Split(after[2], ",")[1])
       IN IF Len(after) >= 2 /\ isdigit(sec)
          THEN Returns(Some(parse_uptime(SecondsSince(Now, DigitsValue(sec)))),
                       <<"sysctl -n kern.boottime">>)
          ELSE Returns(None, <<"sysctl -n kern.boottime">>)
  ELSE IF e.system = "Windows"
  THEN LET out == run(e, "net stats srv")
           hits == SelectSeq(splitlines(out), LAMBDA l : Contains("Statistics since", l))
           boot == strptime(strip(Split1(hits[1], "since")[2]))
       IN IF hits = << >> \/ boot = None THEN Returns(None, <<"net stats srv">>)
          ELSE Returns(Some(parse_uptime(total_seconds(NowDate, boot[1]))), <<"net stats srv">>)
  ELSE Returns(None, << >>)

\* the package managers probed, in order: executable, label, command
MANAGERS ==
  << <<"dpkg-query", "apt (dpkg)", "bash -lc dpkg-query -f '${binary:Package}\n' -W | wc -l">>,
     <<"pacman", "pacman", "bash -lc pacman -Qq | wc -l">>,
     <<"rpm", "rpm", "bash -lc rpm -qa | wc -l">>,
     <<"apk", "apk", "bash -lc apk info | wc -l">>,
     <<"brew", "brew", "bash -lc brew list --formula | wc -l">> >>

\* sum(1 for _ in pkgutil.iter_modules())
pycount == 212

get_packages(e) ==
  LET present == SelectSeq(MANAGERS, LAMBDA m : which(e, m[1]))
      counted == SelectSeq(present, LAMBDA m : isdigit(run(e, m[3])))
      found == [i \in 1..Len(counted) |-> counted[i][2] \o ": " \o run(e, counted[i][3])]
      candidates == IF e.io THEN Append(found, "python: " \o ToString(pycount)) ELSE found
      ran == [i \in 1..Len(present) |-> present[i][3]]
  IN Returns(IF candidates = << >> THEN None ELSE Some(Join(candidates, ", ")), ran)

\* psutil.sensors_battery(), when there is a battery
sensors_battery == [percent |-> Seconds(85, 7), power_plugged |-> TRUE]

get_battery(e) ==
  IF e.psutil \notin {"absent", "old"}
  THEN IF e.psutil = "broken" THEN Raises(<< >>)
       ELSE IF e.psutil = "nobattery" THEN Returns(None, << >>)
       ELSE Returns(Some(ToString(sensors_battery.percent.int) \o "%"
                         \o (IF sensors_battery.power_plugged THEN " (AC)" ELSE "")), << >>)
  ELSE IF e.system = "Darwin"
  THEN LET out == run(e, "pmset -g batt")
           lines == splitlines(out)
       IN IF out # ""
          THEN Returns(Some(strip(IF Len(lines) > 1 THEN lines[2] ELSE out)), <<"pmset -g batt">>)
          ELSE Returns(None, <<"pmset -g batt">>)
  ELSE Returns(None, << >>)

get_ip(e) == IF e.io THEN Returns(Some("192.168.1.10"), << >>) ELSE Returns(None, << >>)

-----------------------------------------------------------------------------
(* The logos.  LOGOS is a module-level dict of lists: pick_logo returns    *)
(* the list object stored in it, not a copy.  In the model pick_logo       *)
(* returns the key of that list, and the list is LOGOS[key].               *)

InitialLOGOS ==
  [k \in {"Linux", "Ubuntu", "Arch", "Debian", "macOS", "Windows"} |->
     CASE k = "Linux" ->
            <<"        .--.      ",
              "       |o_o |     ",
              "       |:_/ |     ",
              "      //   \\ \\   ",
              "     (|     | )   ",
              "    /'\\_   _/'\\  ",
              "    \\___)=(___/  ">>
       [] k = "Ubuntu" ->
            <<"         _        ",
              "     ---(_)       ",
              " _/  ---  \\_     ",
              "(_) |     | (_)   ",
              "   _\\___/_        ",
              "  /  ___  \\       ",
              "  \\_/   \\_/       ">>
       [] k = "Arch" ->
            <<"       /\\         ",
              "      /  \\        ",
              "     /\\   \\       ",
              "    /      \\      ",
              "   /   ,,   \\     ",
              "  /   |  |  -\\    ",
              " /_-''    ''-_\\   ">>
       [] k = "Debian" ->
            <<"   ____           ",
              "  / __ \\___  ___  ",
              " / / / / _ \\/ _ \\ ",
              "/ /_/ /  __/  __/ ",
              "\\____/\\___/\\___/  ">>
       [] k = "macOS" ->
            <<"       .:         ",
              "     .::::.       ",
              "   .::::::::.     ",
              "  ::::::::::::    ",
              "  ':::::::::'     ",
              "    ':::::'       ">>
       [] OTHER ->
            <<"...##########.........# ",
              "..##########..######### ",
              "..##########..######### ",
              "..##########..######### ",
              "..#...#...##.########## ",
              "..#########...#######.. ",
              ".##########..#########..",
              ".##########.##########..",
              " ##########.##########..",
              "##########..##########..",
              "##..........#########...">>]

KEYS == <<"Ubuntu", "Arch", "Debian", "Windows", "macOS">>

\* a variant of pick_logo that compares without lowering either side
pick_logo_case_sensitive(pretty_os) ==
  LET hits == SelectSeq(KEYS, LAMBDA key : Contains(key, pretty_os))
  IN IF hits # << >> THEN hits[1] ELSE "Linux"

pick_logo(pretty_os) ==
  LET lowered == lower(pretty_os)
      hits == SelectSeq(KEYS, LAMBDA key : Contains(lower(key), lowered))
  IN IF hits # << >> THEN hits[1]
     ELSE IF Contains("linux", lowered) THEN "Linux"
     ELSE "Linux"

-----------------------------------------------------------------------------
(* Colours and printing.                                                   *)

ESC == "^["
RESET == ESC \o "[0m"
BOLD == ESC \o "[1m"
\* the five foreground colours C1 .. C5 of the source (lines 365-369)
C1 == ESC \o "[38;5;81m"
C2 == ESC \o "[38;5;39m"
C3 == ESC \o "[38;5;213m"
C4 == ESC \o "[38;5;190m"
C5 == ESC \o "[38;5;118m"

EMDASH == "<emdash>"

\* a variant of colorize that shows an absent value as the empty string
colorize_without_placeholder(label, val, color) ==
  BOLD \o color \o PadRight(label, 10) \o RESET \o (IF val = None THEN "" ELSE val[1])

colorize(label, val, color) ==
  LET shown == IF val = None \/ val = Some("") THEN EMDASH ELSE val[1]
  IN BOLD \o color \o PadRight(label, 10) \o RESET \o shown

RECURSIVE MaxLen(_)
MaxLen(lines) ==
  LET rest == Tail(lines)
  IN IF Len(lines) = 1 THEN Len(lines[1]) ELSE Max(Len(lines[1]), MaxLen(rest))

LABELS == <<"OS", "Host", "Kernel", "Uptime", "Shell", "Resolution", "DE/WM", "CPU",
            "GPU", "Memory", "Disk", "Packages", "Battery", "IP">>

PALETTE == <<196, 202, 226, 82, 45, 27, 93, 99>>

\* a variant of Times that adds no padding at all
Times_nothing(x, n) == << >>

\* [x] * n
RECURSIVE Times(_, _)
Times(x, n) ==
  LET fewer == n - 1
  IN IF n <= 0 THEN << >> ELSE <<x>> \o Times(x, fewer)

COLORS == <<C2, C3, C4, C5, C1>>

\* [colorize(f"{k}:", v, color=COLORS[i % 5]) for i, (k, v) in enumerate(rows)],
\* from index i on
RECURSIVE InfoLines(_, _)
InfoLines(pairs, i) ==
  LET rest == Tail(pairs)
      next == i + 1
  IN IF pairs = << >> THEN << >>
     ELSE <<colorize(pairs[1][1] \o ":", pairs[1][2], COLORS[(i % 5) + 1])>>
          \o InfoLines(rest, next)

\* the lines printed by the loop over zip(logo, info_lines); zip stops at the
\* shorter list
RECURSIVE PrintBody(_, _)
PrintBody(left, right) ==
  LET left_rest == Tail(left)
      right_rest == Tail(right)
  IN IF left = << >> \/ right = << >> THEN << >>
     ELSE <<C5 \o left[1] \o RESET \o "  " \o right[1]>>
          \o PrintBody(left_rest, right_rest)

\* the background-coloured blocks of the palette strip
RECURSIVE Swatches(_)
Swatches(codes) ==
  LET rest == Tail(codes)
  IN IF codes = << >> THEN << >>
     ELSE <<ESC \o "[48;5;" \o ToString(codes[1]) \o "m  " \o ESC \o "[0m">> \o Swatches(rest)

\* the resolvers, in the order in which main calls them (lines 377-390)
RESOLVERS == <<"get_os", "get_host", "get_kernel", "get_shell", "get_res", "get_de_wm",
               "get_cpu", "get_gpu", "get_memory", "get_disk", "get_uptime",
               "get_packages", "get_battery", "get_ip">>

Resolve(fn, e) ==
  CASE fn = "get_os" -> get_os(e)
    [] fn = "get_host" -> get_host(e)
    [] fn = "get_kernel" -> get_kernel(e)
    [] fn = "get_shell" -> get_shell(e)
    [] fn = "get_res" -> get_res(e)
    [] fn = "get_de_wm" -> get_de_wm(e)
    [] fn = "get_cpu" -> get_cpu(e)
    [] fn = "get_gpu" -> get_gpu(e)
    [] fn = "get_memory" -> get_memory(e)
    [] fn = "get_disk" -> get_disk(e)
    [] fn = "get_uptime" -> get_uptime(e)
    [] fn = "get_packages" -> get_packages(e)
    [] fn = "get_battery" -> get_battery(e)
    [] OTHER -> get_ip(e)

\* lines 377-390: the results of the resolvers, in the order of RESOLVERS
Results(e) ==
  <<get_os(e), get_host(e), get_kernel(e), get_shell(e), get_res(e), get_de_wm(e),
    get_cpu(e), get_gpu(e), get_memory(e), get_disk(e), get_uptime(e),
    get_packages(e), get_battery(e), get_ip(e)>>

\* an exception escaped one of the resolvers
Raised(res) == \E i \in 1..Len(res) : res[i].raised

\* lines 395-410: the rows, from the results of the resolvers
Rows(res) ==
  << <<"OS", Some(strip(res[1].val[1] \o " " \o res[1].val[2]))>>,
     <<"Host", Some(res[2].val[1])>>,
     <<"Kernel", res[3].val>>,
     <<"Uptime", res[11].val>>,
     <<"Shell", res[4].val>>,
     <<"Resolution", res[5].val>>,
     <<"DE/WM", res[6].val>>,
     <<"CPU", res[7].val>>,
     <<"GPU", res[8].val>>,
     <<"Memory", res[9].val>>,
     <<"Disk", res[10].val>>,
     <<"Packages", res[12].val>>,
     <<"Battery", res[13].val>>,
     <<"IP", res[14].val>> >>

\* lines 394, 416, 417: logo += [" " * left_width] * (total_lines - len(logo))
PaddedLogo(lines, infos) ==
  lines \o Times(Spaces(MaxLen(lines)), Max(Len(lines), Len(infos)) - Len(lines))

\* lines 416, 418: info_lines += [""] * (total_lines - len(info_lines)), the
\* total being taken before the logo is extended
PaddedInfo(lines, infos) ==
  infos \o Times("", Max(Len(lines), Len(infos)) - Len(infos))

\* lines 421-424, 426-427, 430-431: what main prints
Printed(host, body) ==
  <<BOLD \o C1 \o host \o RESET, C1 \o Repeat("-", Len(host)) \o RESET>>
  \o body
  \o <<"\n" \o Join(Swatches(PALETTE), " ")>>

-----------------------------------------------------------------------------
(* The state machine.                                                      *)
(*   env        the environment of the process                             *)
(*   LOGOS      the module-level table                                     *)
(*   call       the call of a single function under consideration: its     *)
(*              name, its argument, whether it has returned, and what it   *)
(*              returned                                                   *)
(*   mainRuns   the number of calls of main() made so far                  *)
(*   results    the latest call of main(): what the resolvers returned     *)
(*   rows       its rows                                                   *)
(*   info_lines its info lines as built, before the padding                *)
(*   logo       the key of the logo it selected, and the list that         *)
(*              pick_logo returned, as it was returned                     *)
(*   proc       its outcome: whether an exception left it, the exit        *)
(*              status of the process, and the body lines it printed       *)
(*   stdout     what the process has printed                               *)

NoCall == [fn |-> "", arg |-> "", done |-> FALSE, ret |-> ""]
NoLogo == [key |-> "", picked |-> << >>]
NoProc == [raised |-> FALSE, exit |-> 0, body |-> << >>]

NoMain ==
  /\ mainRuns = 0
  /\ results = << >>
  /\ rows = << >>
  /\ info_lines = << >>
  /\ logo = NoLogo
  /\ proc = NoProc
  /\ stdout = << >>

Init ==
  /\ env \in {e \in Environments : Observable(e)}
  /\ LOGOS = InitialLOGOS
  /\ call = NoCall
  /\ NoMain

\* one call of main().  An exception of a resolver leaves main before
\* anything is selected or printed; the process then ends with status 1.
Main ==
  /\ mainRuns < MaxRuns
  /\ mainRuns' = mainRuns + 1
  /\ results' = Results(env)
  /\ IF Raised(results')
     THEN /\ rows' = << >>
          /\ info_lines' = << >>
          /\ logo' = NoLogo
          /\ LOGOS' = LOGOS
          /\ proc' = [raised |-> TRUE, exit |-> 1, body |-> << >>]
          /\ stdout' = stdout
     ELSE /\ logo' = [key |-> pick_logo(results'[1].val[1]),
                      picked |-> LOGOS[pick_logo(results'[1].val[1])]]
          /\ rows' = Rows(results')
          /\ info_lines' = InfoLines(rows', 0)
          \* logo += ... extends the list object stored in LOGOS
          /\ LOGOS' = [LOGOS EXCEPT ![logo'.key] = PaddedLogo(logo'.picked, info_lines')]
          /\ proc' = [raised |-> FALSE, exit |-> 0,
                      body |-> PrintBody(LOGOS'[logo'.key],
                                         PaddedInfo(logo'.picked, info_lines'))]
          /\ stdout' = stdout \o Printed(results'[2].val[1], proc'.body)
  /\ UNCHANGED <<env, call>>

Next == Main

Spec == Init /\ [][Next]_vars

-----------------------------------------------------------------------------
(* Single calls of the resolvers: each resolver, called once in every      *)
(* environment.                                                            *)

Range(seq) == {seq[i] : i \in 1..Len(seq)}

CallResolver(fn) ==
  /\ call.fn = ""
  /\ call' = [fn |-> fn, arg |-> "", done |-> TRUE, ret |-> Resolve(fn, env)]
  /\ UNCHANGED <<env, LOGOS, mainRuns, locals, stdout>>

NextResolve == \E fn \in Range(RESOLVERS) : CallResolver(fn)

SpecResolve == Init /\ [][NextResolve]_vars

-----------------------------------------------------------------------------
(* Single calls of the pure functions, on arguments drawn from bounded     *)
(* sets.                                                                   *)

Pending(fn, arg) == [fn |-> fn, arg |-> arg, done |-> FALSE, ret |-> ""]

InitCall(calls) ==
  /\ env = BareEnv
  /\ LOGOS = InitialLOGOS
  /\ call \in calls
  /\ NoMain

Return(fn, value) ==
  /\ call.fn = fn
  /\ ~call.done
  /\ call' = [call EXCEPT !.done = TRUE, !.ret = value]
  /\ UNCHANGED <<env, LOGOS, mainRuns, locals, stdout>>

\* byte counts m * 1024^e: small mantissas, the mantissas around 1024 and
\* 1.5 * 1024, and the integers just below and at 1024^2
NearKilo == {1000, 1023, 1024, 1025, 1280, 1535, 1536, 1792}
NearMega == {1048524, 1048525, 1048575, 1048576}
ByteCounts ==
  {Num(m, e) : m \in (1..MaxMant) \cup NearKilo, e \in 0..MaxExp}
  \cup {Num(m, 0) : m \in {0} \cup NearMega}

CallHumanBytes == Return("human_bytes", human_bytes(call.arg))

SpecBytes ==
  InitCall({Pending("human_bytes", n) : n \in ByteCounts}) /\ [][CallHumanBytes]_vars

Durations ==
  {Seconds(d * 86400 + h * 3600 + m * 60 + x, t) :
     d \in 0..MaxDays, h \in {0, 1, 2, 23}, m \in {0, 1, 2, 59}, x \in {0, 1, 30, 59},
     t \in {0, 5}}

CallParseUptime == Return("parse_uptime", parse_uptime(call.arg))

SpecUptime ==
  InitCall({Pending("parse_uptime", d) : d \in Durations}) /\ [][CallParseUptime]_vars

\* OS names: the concatenations of at most MaxTokens of these pieces
TOKENS == {"Ubuntu", "ARCH", "Debian", "windows", "macOS", "Linux", "Mar", "ch",
           " ", "BSD", "deb", "IAN 12"}

RECURSIVE Names(_)
Names(k) ==
  IF k = 0 THEN {""}
  ELSE LET shorter == Names(k - 1)
       IN shorter \cup {n \o t : n \in shorter, t \in TOKENS}

\* pick_logo returns the list stored under the key: the key and the list
CallPickLogo ==
  Return("pick_logo", [key |-> pick_logo(call.arg), logo |-> LOGOS[pick_logo(call.arg)]])

SpecLogo ==
  InitCall({Pending("pick_logo", n) : n \in Names(MaxTokens)}) /\ [][CallPickLogo]_vars

-----------------------------------------------------------------------------
(* The properties.                                                         *)

\* s.endswith(suffix)
EndsWith(s, suffix) ==
  Len(s) >= Len(suffix) /\ SubSeq(s, Len(s) - Len(suffix) + 1, Len(s)) = suffix

\* a call of fn has returned
Returned(fn) == call.done /\ call.fn = fn

\* C1: no exception escapes any of the 14 field resolvers, whatever probes
\* fail, including when the optional library is importable and its calls
\* raise: every call of a resolver returns a value or None.
C1_ResolverNeverRaises ==
  (call.done /\ call.fn \in Range(RESOLVERS)) => ~call.ret.raised

\* no optional library and no external command
MinimalEnvironment == env.psutil = "absent" /\ Installed(env) = {}

\* the i-th line of what the latest call of main() printed: the title, the
\* underline, the body and the palette
LastPrinted(i) == stdout[Len(stdout) - (2 + Len(proc.body) + 1) + i]

\* what follows a label on its row: the value, or the placeholder for an
\* absent or empty value
Shown(val) == IF val = None \/ val = Some("") THEN EMDASH ELSE val[1]

C3_Interleaving ==
  (mainRuns > 0 /\ ~proc.raised) =>
    LET L == Len(logo.picked)
        R == Len(info_lines)
        width == MaxLen(logo.picked)
        left(i) == IF i <= L THEN logo.picked[i] ELSE Spaces(width)
        right(i) == IF i <= R THEN info_lines[i] ELSE ""
    IN /\ R = Len(rows)
       /\ Len(proc.body) = Max(L, R)
       /\ \A i \in 1..Max(L, R) :
            /\ proc.body[i] = C5 \o left(i) \o RESET \o "  " \o right(i)
            /\ LastPrinted(2 + i) = proc.body[i]

\* main() has printed a report whose logo (Debian, 5 lines) is shorter than
\* the 14 info rows
C3_Witness ==
  /\ mainRuns = 1
  /\ ~proc.raised
  /\ logo.key = "Debian"
  /\ Len(logo.picked) = 5
  /\ Len(info_lines) = 14
  /\ Len(proc.body) = 14
  /\ proc.body[14] = C5 \o Spaces(18) \o RESET \o "  " \o info_lines[14]

\* C4: the LOGOS table is constant data: after any number of calls of
\* main(), with any OS family selected, every entry of LOGOS equals its
\* initial value (so pick_logo returns the same lines before and after a
\* rendering, also when the logo is shorter than the 14 info rows).
C4_LogosImmutable ==
  \A k \in DOMAIN InitialLOGOS : LOGOS[k] = InitialLOGOS[k]

\* the number shown in front of the unit, in tenths, when text is a number
\* with one decimal place; -1 when it is not
Tenths(text) ==
  LET parts == Split(text, ".")
  IN IF Len(parts) = 2 /\ isdigit(parts[1]) /\ Len(parts[2]) = 1 /\ isdigit(parts[2])
     THEN 10 * DigitsValue(parts[1]) + DigitsValue(parts[2])
     ELSE 0 - 1

\* C5: for all n >= 0, human_bytes(n) is a number with one decimal place,
\* a space and one unit out of B, KB, MB, GB, TB, PB, EB, and the number
\* shown is strictly less than 1024.0; human_bytes(1536) = "1.5 KB" and
\* human_bytes(0) = "0.0 B".
C5_HumanBytes ==
  Returned("human_bytes") =>
    LET parts == Split(call.ret, " ")
    IN /\ Len(parts) = 2
       /\ parts[2] \in {"B", "KB", "MB", "GB", "TB", "PB", "EB"}
       /\ Tenths(parts[1]) >= 0
       /\ Tenths(parts[1]) < 10240
       /\ call.arg = Num(1536, 0) => call.ret = "1.5 KB"
       /\ call.arg = Num(0, 0) => call.ret = "0.0 B"

\* the parts of a duration of s whole seconds
Days(s) == s \div 86400
Hours(s) == (s % 86400) \div 3600
Minutes(s) == (s % 3600) \div 60

\* the text of the parts that are shown, in the order days, hours, minutes
DurationText(s, showDays, showHours, showMinutes) ==
  Join((IF showDays THEN <<ToString(Days(s)) \o "d">> ELSE << >>)
       \o (IF showHours THEN <<ToString(Hours(s)) \o "h">> ELSE << >>)
       \o (IF showMinutes THEN <<ToString(Minutes(s)) \o "m">> ELSE << >>), " ")

\* C6 (as the code has it): parse_uptime(s) is built from d = s div 86400,
\* h = (s mod 86400) div 3600, m = (s mod 3600) div 60 in the order days,
\* hours, minutes; a days or hours part that is zero is omitted wherever it
\* stands, and the minutes part is shown exactly when it is non-zero or when
\* days and hours are both zero; so 90 gives "1m", 3661 gives "1h 1m", 0
\* gives "0m" and 90000 gives "1d 1h".
C6_ParseUptime ==
  Returned("parse_uptime") =>
    LET s == call.arg.int
    IN /\ call.ret = DurationText(s, Days(s) > 0, Hours(s) > 0,
                                  Minutes(s) > 0 \/ (Days(s) = 0 /\ Hours(s) = 0))
       /\ s = 90 => call.ret = "1m"
       /\ s = 3661 => call.ret = "1h 1m"
       /\ s = 0 => call.ret = "0m"
       /\ s = 90000 => call.ret = "1d 1h"

\* parse_uptime has returned for 90000 seconds, a duration with a days and
\* an hours part and zero minutes
C6_Witness ==
  /\ Returned("parse_uptime")
  /\ call.arg.int = 90000
  /\ call.ret = "1d 1h"

\* C6 (as stated): zero-valued leading units are omitted, minutes are shown
\* when everything is zero, and minutes are shown even if zero once a days
\* or hours part is present; so format_duration(90) = "1m",
\* format_duration(3661) = "1h 1m", format_duration(0) = "0m" and
\* format_duration(90000) = "1d 1h 0m".
C6_AsStated ==
  Returned("parse_uptime") =>
    LET s == call.arg.int
    IN /\ call.ret = DurationText(s, Days(s) > 0, Days(s) > 0 \/ Hours(s) > 0, TRUE)
       /\ s = 90 => call.ret = "1m"
       /\ s = 3661 => call.ret = "1h 1m"
       /\ s = 0 => call.ret = "0m"
       /\ s = 90000 => call.ret = "1d 1h 0m"

\* the keywords in their priority order, and the LOGOS key of each
KEYWORDS == <<"ubuntu", "arch", "debian", "windows", "macos", "linux">>
FAMILY == <<"Ubuntu", "Arch", "Debian", "Windows", "macOS", "Linux">>

\* C7: pick_logo is total and deterministic: for every OS name it returns
\* exactly one logo of the LOGOS table, that of the first keyword in the
\* priority order Ubuntu, Arch, Debian, Windows, macOS, generic Linux that
\* occurs in the name as a case-insensitive substring, and the generic
\* Linux logo when no keyword occurs.
C7_PickLogo ==
  Returned("pick_logo") =>
    LET name == lower(call.arg)
        present == {i \in 1..Len(KEYWORDS) : Contains(KEYWORDS[i], name)}
    IN /\ call.ret.key \in DOMAIN LOGOS
       /\ call.ret.logo = InitialLOGOS[call.ret.key]
       /\ present # {} => call.ret.key = FAMILY[Min(present)]
       /\ present = {} => call.ret.key = "Linux"

\* pick_logo has returned for a name that holds two keywords, in upper case
\* and in the order opposite to their priority
C7_Witness ==
  /\ Returned("pick_logo")
  /\ call.arg = "DebianARCH"
  /\ call.ret.key = "Arch"
  /\ call.ret.logo = InitialLOGOS["Arch"]

\* C8: on a non-Windows platform get_shell returns SHELL when it is set;
\* otherwise the last colon-separated field of the getent passwd entry when
\* getent is available and the lookup succeeds; otherwise (getent
\* unavailable, the lookup failing or returning nothing) "sh".  So with
\* SHELL unset the Shell field is never empty and never rendered as the
\* placeholder.
C8_ShellFallback ==
  (Returned("get_shell") /\ env.system # "Windows") =>
    LET entry == run(env, "getent passwd " \o GetenvOr(env, "USER", ""))
        fields == Split(entry, ":")
        expected == IF Getenv(env, "SHELL") # None THEN Getenv(env, "SHELL")[1]
                    ELSE IF which(env, "getent") /\ entry # "" THEN fields[Len(fields)]
                    ELSE "sh"
    IN /\ ~call.ret.raised
       /\ call.ret.val = Some(expected)
       /\ Getenv(env, "SHELL") = None =>
            /\ call.ret.val # Some("")
            /\ ~EndsWith(colorize("Shell:", call.ret.val, C1), RESET \o EMDASH)

\* C9: Battery follows the chain [library battery sensor, pmset on macOS],
\* the first success winning, and is absent only when every applicable
\* probe has failed: on macOS, when the library is importable and its
\* sensor yields no reading, pmset is still tried and its result used, so
\* the presence of the library never makes Battery absent where it would
\* have resolved without the library.
C9_BatteryChain ==
  (Returned("get_battery") /\ ~call.ret.raised) =>
    LET without == get_battery([env EXCEPT !.psutil = "absent"])
    IN /\ without.val # None => call.ret.val # None
       /\ (env.system = "Darwin" /\ env.psutil = "nobattery") =>
            /\ "pmset -g batt" \in Range(call.ret.ran)
            /\ call.ret.val = without.val

\* the first source of a field's chain has succeeded
FirstSourceSucceeded(fn, e) ==
  \/ fn = "get_shell" /\ e.system # "Windows" /\ Getenv(e, "SHELL") # None
  \/ fn = "get_res" /\ e.desktop
  \/ fn = "get_cpu" /\ e.system = "Windows" /\ Truthy(Getenv(e, "PROCESSOR_IDENTIFIER"))
  \/ fn = "get_uptime" /\ e.psutil \in {"ok", "nobattery", "old"}
  \/ fn = "get_battery" /\ e.psutil = "ok"

\* C10: within the resolution of one field the probes run in chain order,
\* each at most once, and no later probe runs once an earlier one has
\* succeeded; in particular get_shell does not invoke getent passwd when
\* SHELL is set (non-Windows platform, getent available).
C10_NoLaterProbe ==
  (call.done /\ call.fn \in Range(RESOLVERS)) =>
    LET ran == call.ret.ran
    IN /\ \A i, j \in 1..Len(ran) : ran[i] = ran[j] => i = j
       /\ FirstSourceSucceeded(call.fn, env) => ran = << >>
       /\ (call.fn = "get_shell" /\ env.system # "Windows" /\ which(env, "getent")
           /\ Getenv(env, "SHELL") # None)
            => \A i \in 1..Len(ran) : ~Contains("getent passwd", ran[i])

====
